---- MODULE Spec2Model ----
(***************************************************************************)
(* Energinet Data Service MCP server (src/server.py): six tools, each      *)
(* building query parameters, calling make_api_request once and rendering  *)
(* the decoded JSON body as text.                                          *)
(*                                                                         *)
(* Representation.                                                         *)
(*   - A Python str that the program builds is a TEXT: the non-empty       *)
(*     sequence of its lines, i.e. the str split on "\n" ("" is <<"">>).   *)
(*     Short strings that never hold a newline (keys, messages, one line)  *)
(*     are TLA+ strings.                                                   *)
(*   - A JSON scalar is a value [t, n, s]: t is "num", "str", "null", or   *)
(*     "absent" for a key that the mapping does not hold.  JSON numbers    *)
(*     are integers here.                                                  *)
(*   - A JSON object of scalars (a row record) is the sequence of its      *)
(*     [k, v] items in the object's own key order.                         *)
(***************************************************************************)
EXTENDS Integers, Sequences, FiniteSets, TLC

(***************************************************************************)
(* Bounds of the model.                                                    *)
(***************************************************************************)
NumCalls == 2        \* concurrently running invocations (ConcSpec)
SmallRecords == 3    \* short record lists hold 0..SmallRecords records
Over == 2            \* long record lists hold up to MaxLimit + Over records
NegLimits == 2       \* limit arguments go down to -NegLimits

(***************************************************************************)
(* Program constants.                                                      *)
(***************************************************************************)
MaxLimit == 100      \* min(limit, 100)

Min(a, b) == IF a < b THEN a ELSE b
Max(a, b) == IF a > b THEN a ELSE b

(***************************************************************************)
(* JSON scalars, Python str() of them, truthiness.                         *)
(***************************************************************************)
NumV(x) == [t |-> "num", n |-> x, s |-> ""]
StrV(x) == [t |-> "str", n |-> 0, s |-> x]
NullV == [t |-> "null", n |-> 0, s |-> ""]
AbsentV == [t |-> "absent", n |-> 0, s |-> ""]

\* f"{value}" of a scalar: str(int), the str itself, "None".
Str(v) == CASE v.t = "num" -> ToString(v.n)
            [] v.t = "str" -> v.s
            [] OTHER -> "None"

\* f"{x:.1f}" and f"{x:.2f}" of a number (an integer here).
Fixed1(x) == ToString(x) \o ".0"
Fixed2(x) == ToString(x) \o ".00"

\* bool(value): None, 0 and "" are falsy.
Truthy(v) == CASE v.t = "num" -> v.n # 0
               [] v.t = "str" -> v.s # ""
               [] OTHER -> FALSE

\* isinstance(value, (int, float))
IsNumber(v) == v.t = "num"

(***************************************************************************)
(* dict access on a row record.                                            *)
(***************************************************************************)
HasKey(record, key) == \E j \in 1..Len(record) : record[j].k = key

\* record.get(key, default)
Get(record, key, default) ==
    IF HasKey(record, key)
    THEN record[CHOOSE j \in 1..Len(record) : record[j].k = key].v
    ELSE default

(***************************************************************************)
(* Texts: str values as line sequences.                                    *)
(***************************************************************************)
\* a + b
Cat(a, b) == SubSeq(a, 1, Len(a) - 1) \o <<a[Len(a)] \o b[1]>> \o Tail(b)

RECURSIVE Flatten(_)
Flatten(texts) ==
    IF texts = <<>> THEN <<>> ELSE Head(texts) \o Flatten(Tail(texts))

\* "\n".join(texts)
JoinNL(texts) == IF texts = <<>> THEN <<"">> ELSE Flatten(texts)

\* Mutant: the slice takes one record more.
SliceInclusive(records, stop) ==
    SubSeq(records, 1, Min(Max(stop + 1, 0), Len(records)))

\* records[:max_records], Python slice semantics (a negative stop counts
\* from the end).
SliceTo(records, stop) ==
    IF stop >= 0
    THEN SubSeq(records, 1, Min(stop, Len(records)))
    ELSE SubSeq(records, 1, Max(Len(records) + stop, 0))

(***************************************************************************)
(* format_records                                                          *)
(***************************************************************************)
\* record_str of the i-th (0-based) record: "Record {i+1}:\n" and one
\* "  {key}: {value}\n" per item.
RecordStr(i, record) ==
    <<"Record " \o ToString(i + 1) \o ":">>
    \o [j \in 1..Len(record) |->
            "  " \o record[j].k \o ": " \o Str(record[j].v)]
    \o <<"">>

OmissionLine(n) == "... and " \o ToString(n) \o " more records"

format_records(records, max_records) ==
    IF records = <<>>
    THEN <<"No records found.">>
    ELSE LET shown == SliceTo(records, max_records)
             formatted == [i \in 1..Len(shown) |-> RecordStr(i - 1, shown[i])]
             result == JoinNL(formatted)
         IN  IF Len(records) > max_records
             THEN Cat(result, <<"", OmissionLine(Len(records) - max_records)>>)
             ELSE result

(***************************************************************************)
(* The value make_api_request returns: None (a JSON null body) or a dict.  *)
(*   error            the value under "error" (absent when no such key)    *)
(*   total            the value under "total"                              *)
(*   records, result  the list under the key: tag "absent", "null" or      *)
(*                    "list", and its items                                *)
(*   meta, columns    "result" as a mapping (meta/{dataset}): tag          *)
(*                    "absent" or "dict", its scalar items, and the list   *)
(*                    under its "columns" key                              *)
(***************************************************************************)
NoList == [tag |-> "absent", items |-> <<>>]
NullList == [tag |-> "null", items |-> <<>>]
ListOf(items) == [tag |-> "list", items |-> items]
NoMeta == [tag |-> "absent", items |-> <<>>, columns |-> NoList]
MetaOf(items, columns) == [tag |-> "dict", items |-> items, columns |-> columns]

EmptyDict ==
    [isNone |-> FALSE, error |-> AbsentV, total |-> AbsentV,
     records |-> NoList, result |-> NoList, meta |-> NoMeta]
NoneData == [EmptyDict EXCEPT !.isNone = TRUE]

\* {"error": message}
ErrorDict(message) == [EmptyDict EXCEPT !.error = StrV(message)]

\* Mutant: data.get("error") for "error" in data.
HasErrorTruthy(data) == Truthy(data.error)

\* "error" in data
HasError(data) == data.error.t # "absent"

\* Mutant: only a missing or null list counts as no data.
FalsyMissing(list) == list.tag # "list"

\* data.get(key, []) for a list-valued key
ItemsOf(list) == IF list.tag = "list" THEN list.items ELSE <<>>

\* not <list>
Falsy(list) == list.tag # "list" \/ list.items = <<>>

(***************************************************************************)
(* make_api_request: what the try block returns for each way the GET ends. *)
(*   "ok"         2xx and a body that decodes: the decoded body            *)
(*   "status"     raise_for_status() raises HTTPStatusError                *)
(*   "transport"  client.get raises a RequestError (timeout included)      *)
(*   "decode"     response.json() raises; any other Exception is alike     *)
(***************************************************************************)
HttpErrorText(outcome) ==
    "HTTP error " \o ToString(outcome.code) \o ": " \o outcome.text
RequestErrorText(outcome) == "Request failed: " \o outcome.text
UnexpectedErrorText(outcome) == "Unexpected error: " \o outcome.text

make_api_request(outcome) ==
    CASE outcome.o = "ok" -> outcome.body
      [] outcome.o = "status" -> ErrorDict(HttpErrorText(outcome))
      [] outcome.o = "transport" -> ErrorDict(RequestErrorText(outcome))
      [] OTHER -> ErrorDict(UnexpectedErrorText(outcome))

(***************************************************************************)
(* Query parameters of each tool.  A dict is a function on its keys; the   *)
(* params=None of the two meta tools is the empty mapping.                 *)
(***************************************************************************)
NoParams == <<>>

\* Mutant: max for min.
ClampLimitMax(limit) == Max(limit, MaxLimit)

\* min(limit, 100)
ClampLimit(limit) == Min(limit, MaxLimit)

\* if value: params[key] = value
OptParam(key, v) == IF Truthy(v) THEN key :> v.s ELSE <<>>

PriceAreaFilter(price_area) == "\"PriceArea\" = \"" \o Str(price_area) \o "\""

query_dataset_params(args) ==
    ("limit" :> ClampLimit(args.limit))
    @@ (IF args.offset > 0 THEN "offset" :> args.offset ELSE <<>>)
    @@ OptParam("start", args.start)
    @@ OptParam("end", args.end)
    @@ OptParam("filter", args.filter)
    @@ OptParam("columns", args.columns)
    @@ OptParam("sort", args.sort)

get_electricity_prices_params(args) ==
    ("limit" :> ClampLimit(args.limit))
    @@ ("filter" :> PriceAreaFilter(args.price_area))
    @@ ("sort" :> "HourUTC DESC")
    @@ ("columns" :> "HourUTC,HourDK,PriceArea,SpotPriceDKK,SpotPriceEUR")
    @@ OptParam("start", args.start)
    @@ OptParam("end", args.end)

get_co2_emissions_params(args) ==
    ("limit" :> ClampLimit(args.limit))
    @@ ("sort" :> "Minutes5UTC DESC")
    @@ OptParam("start", args.start)
    @@ OptParam("end", args.end)

get_production_consumption_params(args) ==
    ("limit" :> ClampLimit(args.limit))
    @@ ("sort" :> "HourUTC DESC")
    @@ (IF Truthy(args.price_area)
        THEN "filter" :> PriceAreaFilter(args.price_area) ELSE <<>>)
    @@ OptParam("start", args.start)
    @@ OptParam("end", args.end)

Tools ==
    {"list_datasets", "get_dataset_metadata", "query_dataset",
     "get_electricity_prices", "get_co2_emissions",
     "get_production_consumption"}

LimitTools == Tools \ {"list_datasets", "get_dataset_metadata"}

BuildParams(t, args) ==
    CASE t = "query_dataset" -> query_dataset_params(args)
      [] t = "get_electricity_prices" -> get_electricity_prices_params(args)
      [] t = "get_co2_emissions" -> get_co2_emissions_params(args)
      [] t = "get_production_consumption" ->
            get_production_consumption_params(args)
      [] OTHER -> NoParams

Endpoint(t, args) ==
    CASE t = "list_datasets" -> "meta/dataset"
      [] t = "get_dataset_metadata" -> "meta/" \o args.dataset_name
      [] t = "query_dataset" -> "dataset/" \o args.dataset_name
      [] t = "get_electricity_prices" -> "dataset/Elspotprices"
      [] t = "get_co2_emissions" -> "dataset/CO2Emis"
      [] OTHER -> "dataset/ProductionConsumptionSettlement"

(***************************************************************************)
(* What each tool does with the value make_api_request returned: the text  *)
(* it returns, and whether it raises instead.                              *)
(***************************************************************************)
ErrorText(data) == <<"Error: " \o Str(data.error)>>

\* ---- list_datasets ----
DatasetLine(ds) ==
    "- " \o Str(Get(ds, "name", StrV("Unknown"))) \o ": "
         \o Str(Get(ds, "description", StrV("No description")))

list_datasets(data) ==
    IF data.isNone
    THEN <<"Unable to fetch dataset list from Energinet Data Service.">>
    ELSE IF HasError(data) THEN ErrorText(data)
    ELSE IF Falsy(data.result) THEN <<"No datasets found.">>
    ELSE LET datasets == ItemsOf(data.result)
             dataset_names == [j \in 1..Len(datasets) |-> <<DatasetLine(datasets[j])>>]
         IN  Cat(<<"Available datasets (" \o ToString(Len(datasets)) \o " total):",
                   "", "">>,
                 JoinNL(dataset_names))

\* ---- get_dataset_metadata ----
ColumnLine(col) ==
    "  - " \o Str(Get(col, "name", StrV("Unknown")))
           \o " (" \o Str(Get(col, "type", StrV("Unknown"))) \o "): "
           \o Str(Get(col, "description", StrV("No description")))

\* "not result" for the mapping under "result"
NoMetadata(meta) ==
    meta.tag # "dict" \/ (meta.items = <<>> /\ meta.columns.tag = "absent")

get_dataset_metadata(args, data) ==
    IF data.isNone
    THEN <<"Unable to fetch metadata for dataset '" \o args.dataset_name \o "'.">>
    ELSE IF HasError(data) THEN ErrorText(data)
    ELSE IF NoMetadata(data.meta)
    THEN <<"No metadata found for dataset '" \o args.dataset_name \o "'.">>
    ELSE LET result == data.meta
             columns == ItemsOf(result.columns)
         IN  <<"Dataset: " \o args.dataset_name>>
             \o (IF HasKey(result.items, "description")
                 THEN <<"Description: "
                        \o Str(Get(result.items, "description", NullV))>>
                 ELSE <<>>)
             \o (IF HasKey(result.items, "recordCount")
                 THEN <<"Total Records: "
                        \o Str(Get(result.items, "recordCount", NullV))>>
                 ELSE <<>>)
             \o (IF columns # <<>>
                 THEN <<"", "Columns:">>
                      \o [j \in 1..Len(columns) |-> ColumnLine(columns[j])]
                 ELSE <<>>)

\* ---- query_dataset ----
\* len(records) raises TypeError when "records" is null.
query_dataset_raises(args, data) ==
    ~data.isNone /\ ~HasError(data) /\ data.records.tag = "null"

query_dataset_header(args, data) ==
    LET total == IF data.total.t = "absent" THEN NumV(0) ELSE data.total
        records == ItemsOf(data.records)
    IN  <<"Dataset: " \o args.dataset_name,
          "Total matching records: " \o Str(total),
          "Records returned: " \o ToString(Len(records)),
          "">>

\* Mutant: the formatter is capped by the transmitted limit.
query_dataset_clamped(args, data) ==
    IF data.isNone
    THEN <<"Unable to query dataset '" \o args.dataset_name \o "'.">>
    ELSE IF HasError(data) THEN ErrorText(data)
    ELSE query_dataset_header(args, data)
         \o format_records(ItemsOf(data.records), ClampLimit(args.limit))

query_dataset(args, data) ==
    IF data.isNone
    THEN <<"Unable to query dataset '" \o args.dataset_name \o "'.">>
    ELSE IF HasError(data) THEN ErrorText(data)
    ELSE query_dataset_header(args, data)
         \o format_records(ItemsOf(data.records), args.limit)

\* ---- get_electricity_prices ----
\* f"{price:.2f}" when the price is a number, the value as it is otherwise.
Price(v) == IF IsNumber(v) THEN Fixed2(v.n) ELSE Str(v)

PriceLine(record) ==
    Str(Get(record, "HourDK", Get(record, "HourUTC", StrV("Unknown"))))
    \o ": " \o Price(Get(record, "SpotPriceDKK", StrV("N/A")))
    \o " DKK/MWh (" \o Price(Get(record, "SpotPriceEUR", StrV("N/A")))
    \o " EUR/MWh)"

get_electricity_prices(args, data) ==
    IF data.isNone
    THEN <<"Unable to fetch electricity prices for "
           \o Str(args.price_area) \o ".">>
    ELSE IF HasError(data) THEN ErrorText(data)
    ELSE IF Falsy(data.records)
    THEN <<"No electricity prices found for " \o Str(args.price_area) \o ".">>
    ELSE LET records == ItemsOf(data.records)
         IN  <<"Electricity Spot Prices for " \o Str(args.price_area),
               "(Prices in DKK/MWh and EUR/MWh)", "">>
             \o [j \in 1..Len(records) |-> PriceLine(records[j])]

\* ---- get_co2_emissions ----
Co2Line(record) ==
    LET co2 == Get(record, "CO2Emission", StrV("N/A"))
    IN  Str(Get(record, "Minutes5DK", Get(record, "Minutes5UTC", StrV("Unknown"))))
        \o " (" \o Str(Get(record, "PriceArea", StrV("Unknown"))) \o "): "
        \o (IF IsNumber(co2) THEN Fixed1(co2.n) ELSE Str(co2)) \o " g/kWh"

get_co2_emissions(data) ==
    IF data.isNone THEN <<"Unable to fetch CO2 emission data.">>
    ELSE IF HasError(data) THEN ErrorText(data)
    ELSE IF Falsy(data.records) THEN <<"No CO2 emission data found.">>
    ELSE LET records == ItemsOf(data.records)
         IN  <<"CO2 Emission Intensity (g CO2/kWh)", "">>
             \o [j \in 1..Len(records) |-> Co2Line(records[j])]

\* ---- get_production_consumption ----
\* record.get(key, 0) or 0
OrZero(record, key) ==
    LET v == Get(record, key, NumV(0)) IN IF Truthy(v) THEN v ELSE NumV(0)

\* onshore_wind + offshore_wind and the three {:.1f} formats raise
\* (TypeError, ValueError) unless the three values are numbers.
RecordRaises(record) ==
    \/ ~IsNumber(OrZero(record, "OnshoreWindPower"))
    \/ ~IsNumber(OrZero(record, "OffshoreWindPower"))
    \/ ~IsNumber(OrZero(record, "SolarPower"))

TotalWind(record) ==
    OrZero(record, "OnshoreWindPower").n + OrZero(record, "OffshoreWindPower").n

WindLine(record) ==
    "  Wind: " \o Fixed1(TotalWind(record)) \o " MWh (Onshore: "
    \o Fixed1(OrZero(record, "OnshoreWindPower").n) \o ", Offshore: "
    \o Fixed1(OrZero(record, "OffshoreWindPower").n) \o ")"

ProductionBlock(record) ==
    <<Str(Get(record, "HourDK", Get(record, "HourUTC", StrV("Unknown"))))
        \o " (" \o Str(Get(record, "PriceArea", StrV("Unknown"))) \o "):",
      WindLine(record),
      "  Solar: " \o Fixed1(OrZero(record, "SolarPower").n) \o " MWh",
      "  Gross Consumption: " \o Str(Get(record, "GrossConsumption", StrV("N/A"))),
      "">>

get_production_consumption_raises(data) ==
    /\ ~data.isNone /\ ~HasError(data) /\ ~Falsy(data.records)
    /\ \E j \in 1..Len(data.records.items) : RecordRaises(data.records.items[j])

get_production_consumption(data) ==
    IF data.isNone THEN <<"Unable to fetch production/consumption data.">>
    ELSE IF HasError(data) THEN ErrorText(data)
    ELSE IF Falsy(data.records)
    THEN <<"No production/consumption data found.">>
    ELSE LET records == ItemsOf(data.records)
         IN  <<"Electricity Production and Consumption (MWh)", "">>
             \o Flatten([j \in 1..Len(records) |-> ProductionBlock(records[j])])

\* ---- dispatch on the tool's name ----
ToolRaises(t, args, data) ==
    CASE t = "query_dataset" -> query_dataset_raises(args, data)
      [] t = "get_production_consumption" -> get_production_consumption_raises(data)
      [] OTHER -> FALSE

ToolText(t, args, data) ==
    CASE t = "list_datasets" -> list_datasets(data)
      [] t = "get_dataset_metadata" -> get_dataset_metadata(args, data)
      [] t = "query_dataset" -> query_dataset(args, data)
      [] t = "get_electricity_prices" -> get_electricity_prices(args, data)
      [] t = "get_co2_emissions" -> get_co2_emissions(data)
      [] OTHER -> get_production_consumption(data)

(***************************************************************************)
(* Inputs: the arguments of a call and the ways the upstream can answer.   *)
(***************************************************************************)
API_BASE == "https://api.energidataservice.dk"
DEFAULT_TIMEOUT == 30

LimitArgs ==
    ((0 - NegLimits)..(SmallRecords + 1))
    \cup ((MaxLimit - 1)..(MaxLimit + Over + 1))

RecordCounts == (0..SmallRecords) \cup ((MaxLimit - 1)..(MaxLimit + Over))

\* The signature defaults of query_dataset, with the price_area default of
\* get_production_consumption.
DefaultArgs ==
    [dataset_name |-> "Elspotprices", limit |-> 10, offset |-> 0,
     start |-> NullV, end |-> NullV, filter |-> NullV, columns |-> NullV,
     sort |-> NullV, price_area |-> NullV]

Ranges ==
    {[start |-> NullV, end |-> NullV],
     [start |-> StrV("2024-01-01T00:00"), end |-> StrV("2024-01-02T00:00")],
     [start |-> StrV(""), end |-> StrV("2024-01-02T00:00")]}

Selections ==
    {[offset |-> 0, filter |-> NullV, columns |-> NullV, sort |-> NullV],
     [offset |-> 5, filter |-> StrV("\"PriceArea\" = \"DK1\""),
      columns |-> StrV("HourDK,SpotPriceDKK"), sort |-> StrV("HourUTC DESC")],
     [offset |-> -1, filter |-> StrV(""), columns |-> NullV,
      sort |-> StrV("HourUTC DESC")]}

ArgsOf(t) ==
    CASE t = "list_datasets" -> {DefaultArgs}
      [] t = "get_dataset_metadata" ->
            {[DefaultArgs EXCEPT !.dataset_name = d] : d \in {"Elspotprices", "CO2Emis"}}
      [] t = "query_dataset" ->
            {[DefaultArgs EXCEPT !.limit = l, !.offset = x.offset,
                                 !.filter = x.filter, !.columns = x.columns,
                                 !.sort = x.sort, !.start = r.start, !.end = r.end] :
                 l \in LimitArgs, x \in Selections, r \in Ranges}
      [] t = "get_electricity_prices" ->
            {[DefaultArgs EXCEPT !.limit = l, !.price_area = StrV(a),
                                 !.start = r.start, !.end = r.end] :
                 l \in LimitArgs, a \in {"DK1", "DK2"}, r \in Ranges}
      [] t = "get_co2_emissions" ->
            {[DefaultArgs EXCEPT !.limit = l, !.start = r.start, !.end = r.end] :
                 l \in LimitArgs, r \in Ranges}
      [] OTHER ->
            {[DefaultArgs EXCEPT !.limit = l, !.price_area = a,
                                 !.start = r.start, !.end = r.end] :
                 l \in LimitArgs, a \in {NullV, StrV("DK1"), StrV("")},
                 r \in Ranges}

\* Row records the upstream may send; the k-th record of a list carries k.
Shapes == {"full", "sparse", "nulls", "text", "empty"}

Row(shape, k) ==
    CASE shape = "full" ->
            <<[k |-> "HourDK", v |-> StrV("T" \o ToString(k))],
              [k |-> "PriceArea", v |-> StrV("DK1")],
              [k |-> "SpotPriceDKK", v |-> NumV(100 + k)],
              [k |-> "SpotPriceEUR", v |-> NumV(13)],
              [k |-> "CO2Emission", v |-> NumV(123)],
              [k |-> "OnshoreWindPower", v |-> NumV(k)],
              [k |-> "OffshoreWindPower", v |-> NumV(7)],
              [k |-> "SolarPower", v |-> NumV(2)],
              [k |-> "GrossConsumption", v |-> NumV(40)]>>
      [] shape = "sparse" ->
            <<[k |-> "HourUTC", v |-> StrV("U" \o ToString(k))],
              [k |-> "OnshoreWindPower", v |-> NumV(k)]>>
      [] shape = "nulls" ->
            <<[k |-> "HourDK", v |-> NullV],
              [k |-> "SpotPriceDKK", v |-> NullV],
              [k |-> "CO2Emission", v |-> NullV],
              [k |-> "OnshoreWindPower", v |-> NullV],
              [k |-> "OffshoreWindPower", v |-> NumV(k)],
              [k |-> "SolarPower", v |-> StrV("")],
              [k |-> "GrossConsumption", v |-> NullV]>>
      [] shape = "text" ->
            <<[k |-> "HourDK", v |-> StrV("T" \o ToString(k))],
              [k |-> "SpotPriceDKK", v |-> StrV("12.5")],
              [k |-> "CO2Emission", v |-> StrV("n/a")],
              [k |-> "OnshoreWindPower", v |-> StrV("12.5")],
              [k |-> "GrossConsumption", v |-> StrV("40")]>>
      [] OTHER -> <<>>

Rows(shape, n) == [k \in 1..n |-> Row(shape, k)]

Dataset(shape, k) ==
    IF shape = "full"
    THEN <<[k |-> "name", v |-> StrV("DS" \o ToString(k))],
           [k |-> "description", v |-> StrV("dataset")]>>
    ELSE <<[k |-> "name", v |-> NullV]>>

Column(k) ==
    IF k = 1
    THEN <<[k |-> "name", v |-> StrV("HourDK")],
           [k |-> "type", v |-> StrV("datetime")],
           [k |-> "description", v |-> StrV("hour")]>>
    ELSE <<[k |-> "name", v |-> StrV("C" \o ToString(k))]>>

\* Decoded bodies of a 2xx answer, by endpoint.
ErrorBodies == {[EmptyDict EXCEPT !.error = m] : m \in {StrV("boom"), StrV(""), NullV}}

RecordBodies ==
    {[EmptyDict EXCEPT !.records = l] : l \in {NoList, NullList}}
    \cup {[EmptyDict EXCEPT !.total = NumV(n + 5), !.records = ListOf(Rows("full", n))] :
              n \in RecordCounts}
    \cup {[EmptyDict EXCEPT !.records = ListOf(Rows(sh, n))] :
              sh \in Shapes \ {"full"}, n \in RecordCounts \ {0}}

DatasetBodies ==
    {[EmptyDict EXCEPT !.result = l] : l \in {NoList, NullList}}
    \cup {[EmptyDict EXCEPT !.result = ListOf([k \in 1..n |-> Dataset(sh, k)])] :
              sh \in {"full", "sparse"}, n \in 0..SmallRecords}

MetadataBodies ==
    {[EmptyDict EXCEPT !.meta = m] :
        m \in {NoMeta, MetaOf(<<>>, NoList), MetaOf(<<>>, ListOf(<<>>)),
               MetaOf(<<[k |-> "description", v |-> StrV("prices")]>>, NoList),
               MetaOf(<<[k |-> "recordCount", v |-> NumV(7)]>>, NullList)}}
    \cup {[EmptyDict EXCEPT !.meta =
              MetaOf(<<[k |-> "description", v |-> StrV("prices")],
                       [k |-> "recordCount", v |-> NumV(7)]>>,
                     ListOf([k \in 1..n |-> Column(k)]))] : n \in 1..SmallRecords}

Bodies(endpoint) ==
    {NoneData} \cup ErrorBodies
    \cup (IF endpoint = "meta/dataset" THEN DatasetBodies
          ELSE IF endpoint \in {"meta/Elspotprices", "meta/CO2Emis"} THEN MetadataBodies
          ELSE RecordBodies)

Outcome(o, code, text, body) == [o |-> o, code |-> code, text |-> text, body |-> body]
NoOutcome == Outcome("none", 0, "", EmptyDict)

Failures ==
    {Outcome("status", 404, "Not Found", EmptyDict),
     Outcome("status", 500, "", EmptyDict),
     Outcome("transport", 0, "timed out", EmptyDict),
     Outcome("transport", 0, "All connection attempts failed", EmptyDict),
     Outcome("decode", 200, "Expecting value: line 1 column 1 (char 0)", EmptyDict)}

\* Every way the upstream can answer a GET of the endpoint.
Answers(endpoint) ==
    Failures \cup {Outcome("ok", 200, "", b) : b \in Bodies(endpoint)}

\* The few calls and answers of the concurrent specification.
FewCalls ==
    {[tool |-> "query_dataset", args |-> [DefaultArgs EXCEPT !.limit = 1]],
     [tool |-> "get_co2_emissions",
      args |-> [DefaultArgs EXCEPT !.limit = MaxLimit + 1,
                                   !.start = StrV("2024-01-01T00:00")]],
     [tool |-> "get_production_consumption", args |-> DefaultArgs]}

FewAnswers(endpoint) ==
    {Outcome("transport", 0, "timed out", EmptyDict),
     Outcome("ok", 200, "", [EmptyDict EXCEPT !.error = StrV("boom")]),
     IF endpoint = "dataset/ProductionConsumptionSettlement"
     THEN Outcome("ok", 200, "",
                  [EmptyDict EXCEPT !.records = ListOf(Rows("text", 1))])
     ELSE Outcome("ok", 200, "",
                  [EmptyDict EXCEPT !.total = NumV(2),
                                    !.records = ListOf(Rows("full", 2))])}

AllCalls == UNION {{[tool |-> t, args |-> a] : a \in ArgsOf(t)} : t \in Tools}

(***************************************************************************)
(* State.  An invocation is a coroutine: pc is where it stands.            *)
(*   "idle"    not yet invoked                                             *)
(*   "call"    parameters built, make_api_request entered                  *)
(*   "client"  inside "async with httpx.AsyncClient() as client"           *)
(*   "await"   GET sent, awaiting client.get                               *)
(*   "close"   the try block has returned, the client is being closed      *)
(*   "format"  make_api_request has returned into the tool's local data    *)
(*   "done"    the tool has returned its text                              *)
(*   "raised"  an exception has left the tool                              *)
(***************************************************************************)
VARIABLES
    pc,        \* position of each invocation
    tool,      \* the tool invoked
    args,      \* its arguments
    params,    \* local variable params of each frame
    data,      \* what make_api_request returns: local variable data of each frame
    wire,      \* the GET requests each invocation has sent, in order
    response,  \* how the upstream answered each invocation's GET
    result,    \* the text each invocation returned
    fault      \* where the exception that left the tool was raised

vars == <<pc, tool, args, params, data, wire, response, result, fault>>

Procs == 1..NumCalls
Solo == {1}

\* Mutant: params and data are module-level, one frame for all.
SharedFrame(i) == 1

\* Each invocation runs in a frame of its own: params and data are locals.
Frame(i) == i

Request(endpoint, p) ==
    [url |-> API_BASE \o "/" \o endpoint, params |-> p, timeout |-> DEFAULT_TIMEOUT]

Init ==
    /\ pc = [i \in Procs |-> "idle"]
    /\ tool = [i \in Procs |-> "none"]
    /\ args = [i \in Procs |-> DefaultArgs]
    /\ params = [i \in Procs |-> NoParams]
    /\ data = [i \in Procs |-> NoneData]
    /\ wire = [i \in Procs |-> <<>>]
    /\ response = [i \in Procs |-> NoOutcome]
    /\ result = [i \in Procs |-> <<>>]
    /\ fault = [i \in Procs |-> ""]

\* The host calls a tool: the code up to "await make_api_request(...)".
Invoke(i, calls) ==
    /\ pc[i] = "idle"
    /\ \E c \in calls :
          /\ tool' = [tool EXCEPT ![i] = c.tool]
          /\ args' = [args EXCEPT ![i] = c.args]
          /\ params' = [params EXCEPT ![Frame(i)] = BuildParams(c.tool, c.args)]
    /\ pc' = [pc EXCEPT ![i] = "call"]
    /\ UNCHANGED <<data, wire, response, result, fault>>

\* async with httpx.AsyncClient() as client: the client is set up ...
ClientEnter(i) ==
    /\ pc[i] = "call"
    /\ pc' = [pc EXCEPT ![i] = "client"]
    /\ UNCHANGED <<tool, args, params, data, wire, response, result, fault>>

\* ... or setting it up raises, outside the try block: nothing catches it.
ClientEnterFails(i) ==
    /\ pc[i] = "call"
    /\ pc' = [pc EXCEPT ![i] = "raised"]
    /\ fault' = [fault EXCEPT ![i] = "AsyncClient"]
    /\ UNCHANGED <<tool, args, params, data, wire, response, result>>

\* Mutant: the GET is sent again after the first.
SendGetRetry(i) ==
    /\ pc[i] = "client"
    /\ wire' = [wire EXCEPT ![i] =
                   @ \o <<Request(Endpoint(tool[i], args[i]), params[i]),
                          Request(Endpoint(tool[i], args[i]), params[i])>>]
    /\ pc' = [pc EXCEPT ![i] = "await"]
    /\ UNCHANGED <<tool, args, params, data, response, result, fault>>

\* client.get(url, params=params, timeout=DEFAULT_TIMEOUT) sends the GET.
SendGet(i) ==
    /\ pc[i] = "client"
    /\ wire' = [wire EXCEPT ![i] =
                   Append(@, Request(Endpoint(tool[i], args[i]), params[Frame(i)]))]
    /\ pc' = [pc EXCEPT ![i] = "await"]
    /\ UNCHANGED <<tool, args, params, data, response, result, fault>>

\* The GET ends one way or another and the try block returns a value.
Receive(i, wide) ==
    /\ pc[i] = "await"
    /\ \E o \in (IF wide THEN Answers(Endpoint(tool[i], args[i]))
                         ELSE FewAnswers(Endpoint(tool[i], args[i]))) :
          /\ response' = [response EXCEPT ![i] = o]
          /\ data' = [data EXCEPT ![Frame(i)] = make_api_request(o)]
    /\ pc' = [pc EXCEPT ![i] = "close"]
    /\ UNCHANGED <<tool, args, params, wire, result, fault>>

\* Leaving the async with block closes the client ...
ClientExit(i) ==
    /\ pc[i] = "close"
    /\ pc' = [pc EXCEPT ![i] = "format"]
    /\ UNCHANGED <<tool, args, params, data, wire, response, result, fault>>

\* ... or closing it raises, again outside the try block.
ClientExitFails(i) ==
    /\ pc[i] = "close"
    /\ pc' = [pc EXCEPT ![i] = "raised"]
    /\ fault' = [fault EXCEPT ![i] = "aclose"]
    /\ UNCHANGED <<tool, args, params, data, wire, response, result>>

\* The code of the tool after the await: it returns its text ...
Return(i) ==
    /\ pc[i] = "format"
    /\ ~ToolRaises(tool[i], args[i], data[Frame(i)])
    /\ result' = [result EXCEPT ![i] = ToolText(tool[i], args[i], data[Frame(i)])]
    /\ pc' = [pc EXCEPT ![i] = "done"]
    /\ UNCHANGED <<tool, args, params, data, wire, response, fault>>

\* ... or an expression of it raises.
Raise(i) ==
    /\ pc[i] = "format"
    /\ ToolRaises(tool[i], args[i], data[Frame(i)])
    /\ pc' = [pc EXCEPT ![i] = "raised"]
    /\ fault' = [fault EXCEPT ![i] = tool[i]]
    /\ UNCHANGED <<tool, args, params, data, wire, response, result>>

Step(i, calls, wide) ==
    \/ Invoke(i, calls)
    \/ ClientEnter(i)
    \/ ClientEnterFails(i)
    \/ SendGet(i)
    \/ Receive(i, wide)
    \/ ClientExit(i)
    \/ ClientExitFails(i)
    \/ Return(i)
    \/ Raise(i)

\* One invocation, every argument and every answer.
Next == \E i \in Solo : Step(i, AllCalls, TRUE)
Spec == Init /\ [][Next]_vars

\* Several invocations interleaved by the host's event loop.
ConcNext == \E i \in Procs : Step(i, FewCalls, FALSE)
ConcSpec == Init /\ [][ConcNext]_vars

(***************************************************************************)
(* Reading a returned text back.                                           *)
(***************************************************************************)
StartsWith(str, prefix) ==
    Len(str) >= Len(prefix) /\ SubSeq(str, 1, Len(prefix)) = prefix

RecordHead(k) == "Record " \o ToString(k) \o ":"
IsRecordHead(line) == StartsWith(line, "Record ")

\* The "Record <i>:" lines of a text, in order.
Heads(text) == SelectSeq(text, IsRecordHead)

FieldLines(record) ==
    [j \in 1..Len(record) |-> "  " \o record[j].k \o ": " \o Str(record[j].v)]

\* From line p on, the text holds the blocks of records k..n one after the
\* other: "Record k:", the fields of records[k], a blank line.
RECURSIVE BlocksFrom(_, _, _, _, _)
BlocksFrom(text, p, records, k, n) ==
    IF k > n THEN TRUE
    ELSE LET m == Len(records[k])
         IN  /\ p + m + 1 <= Len(text)
             /\ text[p] = RecordHead(k)
             /\ SubSeq(text, p + 1, p + m) = FieldLines(records[k])
             /\ text[p + m + 1] = ""
             /\ BlocksFrom(text, p + m + 2, records, k + 1, n)

FirstHead(text) == CHOOSE q \in 1..Len(text) : IsRecordHead(text[q])

HasOmission(text) == StartsWith(text[Len(text)], "... and ")

\* The mapping holds an "error" key.
CarriesError(d) == d.error.t # "absent"

\* An invocation of query_dataset that handed a list of records (a missing
\* "records" key is the empty list) to format_records and returned.
Formatted(i) ==
    /\ pc[i] = "done" /\ tool[i] = "query_dataset"
    /\ ~data[i].isNone /\ ~CarriesError(data[i])

RenderedAsStated(text, records, cap) ==
    LET L == Len(records)
        n == Min(L, cap)
    IN  /\ Len(Heads(text)) = n
        /\ n >= 1 => BlocksFrom(text, FirstHead(text), records, 1, n)
        /\ HasOmission(text) <=> L > cap
        /\ L > cap => text[Len(text)] = OmissionLine(L - cap)

\* The request executor returned the error indicator to invocation i.
GotError(i) ==
    pc[i] \in {"format", "done"} /\ ~data[i].isNone /\ CarriesError(data[i])

\* The upstream answered invocation i with a success payload.
GotPayload(i) ==
    /\ response[i].o = "ok"
    /\ ~response[i].body.isNone /\ ~CarriesError(response[i].body)

\* ... whose data list is missing or empty.
NoData(i) ==
    /\ GotPayload(i)
    /\ LET b == response[i].body
       IN  CASE tool[i] = "list_datasets" ->
                  b.result.tag = "absent" \/ b.result = ListOf(<<>>)
             [] tool[i] = "get_dataset_metadata" ->
                  b.meta.tag = "absent" \/ b.meta = MetaOf(<<>>, NoList)
             [] OTHER -> b.records.tag = "absent" \/ b.records = ListOf(<<>>)

NotFoundMessage(i) ==
    CASE tool[i] = "list_datasets" -> "No datasets found."
      [] tool[i] = "get_dataset_metadata" ->
            "No metadata found for dataset '" \o args[i].dataset_name \o "'."
      [] tool[i] = "query_dataset" -> "No records found."
      [] tool[i] = "get_electricity_prices" ->
            "No electricity prices found for " \o Str(args[i].price_area) \o "."
      [] tool[i] = "get_co2_emissions" -> "No CO2 emission data found."
      [] OTHER -> "No production/consumption data found."

(***************************************************************************)
(* C1: every GET of a limit-taking tool carries a 'limit' parameter in     *)
(* [1,100], whatever integer the limit argument is (0 and negative         *)
(* included).                                                              *)
(***************************************************************************)
C1_LimitWithinOneToHundred ==
    \A i \in Procs : \A k \in 1..Len(wire[i]) :
        tool[i] \in LimitTools => wire[i][k].params["limit"] \in 1..MaxLimit

(***************************************************************************)
(* C2: for the four limit-taking tools the transmitted 'limit' is 100 when *)
(* the argument exceeds 100 and the argument itself when it is in [1,100]. *)
(***************************************************************************)
C2_LimitCappedOrUnchanged ==
    \A i \in Procs : \A k \in 1..Len(wire[i]) :
        tool[i] \in LimitTools =>
            /\ args[i].limit > 100 => wire[i][k].params["limit"] = 100
            /\ args[i].limit \in 1..100 =>
                    wire[i][k].params["limit"] = args[i].limit

C2_Witness ==
    \E i \in Procs :
        /\ pc[i] = "await" /\ tool[i] = "get_co2_emissions"
        /\ args[i].limit > 100 /\ wire[i][1].params["limit"] = 100

(***************************************************************************)
(* C3 as stated: for ANY cap C and any L records, format_records renders   *)
(* exactly min(L,C) blocks "Record 1:" .. in input order, and ends with    *)
(* the omission line iff L > C, which then states L - C.                   *)
(***************************************************************************)
C3_AnyCap ==
    \A i \in Procs :
        Formatted(i) =>
            RenderedAsStated(result[i], ItemsOf(data[i].records), args[i].limit)

(***************************************************************************)
(* C3 amended: the same for every cap C >= 0.                              *)
(***************************************************************************)
C3_NonNegativeCap ==
    \A i \in Procs :
        Formatted(i) /\ args[i].limit >= 0 =>
            RenderedAsStated(result[i], ItemsOf(data[i].records), args[i].limit)

C3_Witness ==
    \E i \in Procs :
        /\ Formatted(i) /\ args[i].limit = 2
        /\ Len(ItemsOf(data[i].records)) = 3
        /\ Len(Heads(result[i])) = 2
        /\ result[i][Len(result[i])] = "... and 1 more records"

(***************************************************************************)
(* C4: when the request executor yields the error indicator carrying m,    *)
(* the tool (any of the six) returns the text "Error: " followed by m and  *)
(* renders no record: that line is the whole text, and the tool does not   *)
(* raise.                                                                  *)
(***************************************************************************)
C4_ErrorIsReported ==
    \A i \in Procs :
        /\ GotError(i) /\ pc[i] = "done" =>
                result[i] = <<"Error: " \o Str(data[i].error)>>
        /\ fault[i] \in Tools => ~CarriesError(data[i])

C4_Witness ==
    \E i \in Procs :
        /\ GotError(i) /\ pc[i] = "done" /\ tool[i] = "get_production_consumption"
        /\ response[i].o = "status"
        /\ result[i] = <<"Error: HTTP error 404: Not Found">>

(***************************************************************************)
(* C5: make_api_request never propagates a failure to its caller (not a    *)
(* non-2xx status, a transport failure, an undecodable body, nor a failure *)
(* while the HTTP client is set up or torn down): it returns an error      *)
(* value, which for a non-2xx status carries the status code and the body  *)
(* text.                                                                   *)
(***************************************************************************)
C5_ExecutorNeverPropagates ==
    \A i \in Procs :
        /\ fault[i] \notin {"AsyncClient", "aclose"}
        /\ pc[i] \in {"close", "format", "done"} /\ response[i].o # "ok" =>
                CarriesError(data[i])
        /\ pc[i] \in {"close", "format", "done"} /\ response[i].o = "status" =>
                data[i].error =
                    StrV("HTTP error " \o ToString(response[i].code) \o ": "
                         \o response[i].text)

(***************************************************************************)
(* C6 as stated: every tool invocation that has ended, however it ended,   *)
(* has issued exactly one GET; formatting starts only after that request   *)
(* has completed.                                                          *)
(***************************************************************************)
C6_ExactlyOneGet ==
    \A i \in Procs :
        /\ pc[i] \in {"done", "raised"} => Len(wire[i]) = 1
        /\ pc[i] \in {"format", "done"} =>
                Len(wire[i]) = 1 /\ response[i] # NoOutcome

(***************************************************************************)
(* C6 amended: an invocation never issues more than one GET, and has       *)
(* issued exactly one once its HTTP client was set up and the request sent *)
(* (whether the request then succeeds, gets an HTTP error, fails in        *)
(* transport or times out); it issues none when setting up the client      *)
(* fails.  Formatting starts only after the one request has completed.     *)
(***************************************************************************)
C6_AtMostOneGet ==
    \A i \in Procs :
        /\ Len(wire[i]) <= 1
        /\ pc[i] \in {"await", "close", "format", "done"} => Len(wire[i]) = 1
        /\ pc[i] = "raised" =>
                Len(wire[i]) = (IF fault[i] = "AsyncClient" THEN 0 ELSE 1)
        /\ pc[i] \in {"format", "done"} => response[i] # NoOutcome

C6_Witness ==
    \E i \in Procs :
        /\ pc[i] = "done" /\ response[i].o = "transport"
        /\ Len(wire[i]) = 1
        /\ result[i] = <<"Error: Request failed: timed out">>

(***************************************************************************)
(* C7: on a success payload no tool raises, whatever the fields of the     *)
(* records are (absent, null, text where a number is expected); in         *)
(* get_production_consumption an absent wind component counts as zero and  *)
(* an absent gross consumption is shown as N/A.                            *)
(***************************************************************************)
C7_NoRaiseOnAnyRecord ==
    \A i \in Procs :
        /\ GotPayload(i) /\ response[i].body.records.tag # "null" =>
                fault[i] \notin Tools
        /\ /\ pc[i] = "done" /\ tool[i] = "get_production_consumption"
           /\ GotPayload(i)
           /\ response[i].body.records = ListOf(Rows("sparse", 1))
           => /\ result[i][4] = "  Wind: 1.0 MWh (Onshore: 1.0, Offshore: 0.0)"
              /\ result[i][6] = "  Gross Consumption: N/A"

(***************************************************************************)
(* C8 as stated: for each of the six tools, a success payload whose data   *)
(* list is empty or missing makes the tool return its fixed not-found      *)
(* message and nothing else (no report header), not beginning "Error:".    *)
(***************************************************************************)
C8_OnlyNotFoundMessage ==
    \A i \in Procs :
        pc[i] = "done" /\ NoData(i) =>
            /\ result[i] = <<NotFoundMessage(i)>>
            /\ ~StartsWith(result[i][1], "Error:")

(***************************************************************************)
(* C8 amended: that holds for the five tools other than query_dataset;     *)
(* query_dataset returns its report header (dataset name, total, a         *)
(* returned count of 0, a blank line) followed by the fixed message "No    *)
(* records found.".  No such output begins "Error:".                       *)
(***************************************************************************)
C8_NotFoundMessage ==
    \A i \in Procs :
        pc[i] = "done" /\ NoData(i) =>
            /\ tool[i] # "query_dataset" => result[i] = <<NotFoundMessage(i)>>
            /\ tool[i] = "query_dataset" =>
                    /\ Len(result[i]) = 5
                    /\ result[i][1] = "Dataset: " \o args[i].dataset_name
                    /\ result[i][3] = "Records returned: 0"
                    /\ result[i][4] = ""
                    /\ result[i][5] = NotFoundMessage(i)
            /\ ~StartsWith(result[i][1], "Error:")

C8_Witness ==
    \E i \in Procs :
        /\ pc[i] = "done" /\ NoData(i) /\ tool[i] = "get_electricity_prices"
        /\ response[i].body.records = ListOf(<<>>)
        /\ result[i] = <<"No electricity prices found for DK2.">>

(***************************************************************************)
(* C9: invocations are independent: under every interleaving, what an      *)
(* invocation transmits is a function of its own arguments, and what it    *)
(* returns is a function of its own arguments and of the upstream's answer *)
(* to its own request.                                                     *)
(***************************************************************************)
C9_Independent ==
    \A i \in Procs :
        /\ \A k \in 1..Len(wire[i]) :
              wire[i][k] =
                  Request(Endpoint(tool[i], args[i]), BuildParams(tool[i], args[i]))
        /\ pc[i] = "done" =>
              result[i] = ToolText(tool[i], args[i], make_api_request(response[i]))

C9_Witness ==
    \E i, j \in Procs :
        /\ i # j /\ pc[i] = "done" /\ pc[j] = "done"
        /\ tool[i] = "query_dataset" /\ tool[j] = "get_co2_emissions"
        /\ response[i].o = "ok" /\ response[j].o = "transport"
        /\ result[i] # result[j]

(***************************************************************************)
(* C10: query_dataset with a limit argument >= 1 and a success payload of  *)
(* R records renders exactly min(R, limit) record blocks, limit being the  *)
(* caller's argument and not the clamped value that was transmitted; so    *)
(* never more blocks than the caller's limit, and the header says          *)
(* "Records returned: R".                                                  *)
(***************************************************************************)
C10_BlocksFollowCallerLimit ==
    \A i \in Procs :
        Formatted(i) /\ args[i].limit >= 1 =>
            LET R == Len(ItemsOf(data[i].records))
            IN  /\ Len(Heads(result[i])) = Min(R, args[i].limit)
                /\ Len(Heads(result[i])) <= args[i].limit
                /\ result[i][3] = "Records returned: " \o ToString(R)

C10_Witness ==
    \E i \in Procs :
        /\ Formatted(i) /\ args[i].limit = MaxLimit + 1
        /\ wire[i][1].params["limit"] = MaxLimit
        /\ Len(ItemsOf(data[i].records)) = MaxLimit + 2
        /\ Len(Heads(result[i])) = MaxLimit + 1
====
